---- MODULE Spec2Model ----
(***************************************************************************)
(* HX711 load-cell amplifier driver (src/HX711.js).                        *)
(*                                                                         *)
(* The driver is one synchronous thread.  Its call chain                   *)
(*   __begin / client -> read, readAverage, tare, calibrateScale           *)
(*                    -> __readRawAverage -> __readRaw -> __setChannelGain *)
(* is modelled by one program counter per stack frame (pcBegin, op/apc,    *)
(* rpc, gpc) and the locals of each frame.  The two GPIO lines and the     *)
(* microsecond clock are the environment: every digitalRead of the data    *)
(* line and every measured pulse duration is an input of the step that     *)
(* performs it.                                                            *)
(*                                                                         *)
(* JavaScript numbers are modelled as exact rationals <<n, d>> in lowest   *)
(* terms with d > 0, extended by <<1,0>> = Infinity, <<-1,0>> = -Infinity  *)
(* and <<0,0>> = NaN (the values a division by zero produces).  Rounding   *)
(* of IEEE doubles is not modelled.                                        *)
(***************************************************************************)
EXTENDS Integers, Sequences, FiniteSets, TLC

\* ------------------------------------------------------------------ bounds
\* Number of public API calls the client makes after construction.
MaxCalls == 3
\* Readiness-poll bound of __readRaw; the source's 9999 scaled down.
maxAttempts == 2

\* ------------------------------------------------------- program constants
DataBits == 24
PulseBudget == 60
DefaultScale == 35
NeverRead == -1337
TareSamples == 10
CalibrateSamples == 5

CHANNEL_A_GAIN_128 == "A128"
CHANNEL_B_GAIN_32 == "B32"
CHANNEL_A_GAIN_64 == "A64"
\* A constructor argument that was not passed (undefined, falsy).
Undefined == "undefined"

\* ------------------------------------------------------------- arithmetic
Abs(x) == IF x < 0 THEN -x ELSE x

Sign(x) == IF x < 0 THEN -1 ELSE IF x > 0 THEN 1 ELSE 0

RECURSIVE Gcd(_, _)
Gcd(a, b) == IF b = 0 THEN a ELSE Gcd(b, a % b)

RECURSIVE Pow2(_)
Pow2(k) == IF k = 0 THEN 1 ELSE 2 * Pow2(k - 1)

NaN == <<0, 0>>

\* The number n/d: lowest terms, positive denominator; x/0 is +-Infinity, 0/0 NaN.
Rat(n, d) ==
    IF d = 0 THEN <<Sign(n), 0>>
    ELSE LET g == Gcd(Abs(n), Abs(d))
             s == IF d < 0 THEN -1 ELSE 1
         IN  <<s * (n \div g), s * (d \div g)>>

FromInt(k) == <<k, 1>>

IsFinite(x) == x[2] # 0

\* JS a + b on a finite or NaN a and a finite b.
RAdd(a, b) ==
    IF ~IsFinite(a) \/ ~IsFinite(b) THEN NaN
    ELSE Rat(a[1] * b[2] + b[1] * a[2], a[2] * b[2])

\* JS a / b on a finite or NaN a and a finite b (b may be zero).
RDiv(a, b) ==
    IF ~IsFinite(a) \/ ~IsFinite(b) THEN NaN
    ELSE LET g1 == Gcd(Abs(a[1]), Abs(b[1]))
             g2 == Gcd(a[2], b[2])
             h1 == IF g1 = 0 THEN 1 ELSE g1
         IN  Rat((a[1] \div h1) * (b[2] \div g2), (a[2] \div g2) * (b[1] \div h1))

\* JS -1 * a.
RNeg(a) == <<-a[1], a[2]>>

\* Variant: the tolerance is 50 units instead of 0.5.
AbsAtLeastHalf_Fifty(x) ==
    IF x = NaN THEN FALSE
    ELSE IF ~IsFinite(x) THEN TRUE
    ELSE Abs(x[1]) >= 50 * x[2]

\* Math.abs(x) >= 0.5 ; false for NaN, true for +-Infinity.
AbsAtLeastHalf(x) ==
    IF x = NaN THEN FALSE
    ELSE IF ~IsFinite(x) THEN TRUE
    ELSE 2 * Abs(x[1]) >= x[2]

RECURSIVE SeqSum(_)
SeqSum(s) == IF s = <<>> THEN 0 ELSE Head(s) + SeqSum(Tail(s))

\* Bit k of the unsigned number x.
BitAt(x, k) == (x \div Pow2(k)) % 2

\* Bitwise a ^ b over the low n bits.
RECURSIVE Xor(_, _, _)
Xor(a, b, n) ==
    IF n = 0 THEN 0
    ELSE 2 * Xor(a \div 2, b \div 2, n - 1) + (((a % 2) + (b % 2)) % 2)

\* Bitwise a & b over the low n bits.
RECURSIVE BitAnd(_, _, _)
BitAnd(a, b, n) ==
    IF n = 0 THEN 0
    ELSE 2 * BitAnd(a \div 2, b \div 2, n - 1) + ((a % 2) * (b % 2))

\* ------------------------------------------------------------ environment
\* Conversions the device presents, one per completed 24-bit transfer, cyclically.
ZeroLoad == <<0>>
SteadyLoad == <<1000>>
NegativeLoad == <<16777214>>
EdgePatterns == <<8388607, 1, 8388608, 16777214, 8388609, 0, 8388606, 16777215>>
PlacedWeight == [j \in 1..23 |-> IF j <= 12 THEN 950
                                 ELSE IF j <= 17 THEN <<1000, 1002, 998, 1001, 999>>[j - 12]
                                 ELSE 1000]

\* Constructor arguments (scale 0 stands for every falsy scale argument) and device.
Scenarios ==
    { [script |-> ZeroLoad,     scaleArg |-> 0,  gainArg |-> Undefined],
      [script |-> SteadyLoad,   scaleArg |-> 0,  gainArg |-> CHANNEL_A_GAIN_64],
      [script |-> NegativeLoad, scaleArg |-> 0,  gainArg |-> CHANNEL_A_GAIN_128],
      [script |-> EdgePatterns, scaleArg |-> 0,  gainArg |-> CHANNEL_B_GAIN_32],
      [script |-> PlacedWeight, scaleArg |-> 10, gainArg |-> Undefined] }

\* Measured pulse durations in microseconds (microtime.now() differences).
Elapsed == {PulseBudget - 1, PulseBudget, PulseBudget + 1}

\* Arguments the client passes.
Counts == {-1, 0, 2, 5}
KnownWeights == {2}

\* ------------------------------------------------------------------ state
VARIABLES
    offset, scale, latestReading, channelGain,   \* fields of the HX711 object
    clockPin,                                    \* level last written to pd_sck
    script, devIdx, devPattern,                  \* device: conversions, next one, latched one
    pcBegin,                                     \* position of the constructor's __begin
    op, apc,                                     \* public method running; __readRawAverage pc
    numberOfTimes, sum, i, result,               \* locals of __readRawAverage
    rpc, attemptsCounter, data_in, bit,          \* __readRaw pc and locals
    gpc, timesToPulse, timesPulsed, isInit,      \* __setChannelGain pc and locals
    calls, ret, prev,                            \* client: calls made, last return, the one before
    samples,                                     \* raw samples __readRaw returned in this call
    failKind, violated,                          \* this attempt: why it failed, which pulse was slow
    lastPulse,                                   \* kind of the last clock pulse emitted
    offsetAtCall, scaleAtCall                    \* Offset and Scale when the running call began

fields == <<offset, scale, latestReading, channelGain>>
device == <<script, devIdx, devPattern>>
avgLocals == <<numberOfTimes, sum, i, result>>
rawLocals == <<attemptsCounter, data_in, bit>>
gainLocals == <<timesToPulse, timesPulsed, isInit>>
client == <<calls, ret, prev>>
atCall == <<offsetAtCall, scaleAtCall>>

vars == <<fields, clockPin, device, pcBegin, op, apc, avgLocals, rpc, rawLocals,
          gpc, gainLocals, client, samples, failKind, violated, lastPulse, atCall>>

\* The failure marker `false` of __readRaw, and a RawSample. As an addend false is 0.
Failed == [ok |-> FALSE, val |-> 0]
Sample(v) == [ok |-> TRUE, val |-> v]

NoOp == [name |-> "none", arg |-> 0]
NoRet == [name |-> "none", arg |-> 0, val |-> NaN, samples |-> <<>>]

\* The object as the constructor leaves it just before it calls __begin().
Init ==
    \E sc \in Scenarios :
        /\ offset = FromInt(0)
        /\ scale = FromInt(IF sc.scaleArg = 0 THEN DefaultScale ELSE sc.scaleArg)
        /\ latestReading = FromInt(NeverRead)
        /\ channelGain = IF sc.gainArg = Undefined THEN CHANNEL_A_GAIN_128 ELSE sc.gainArg
        /\ clockPin \in {0, 1}
        /\ script = sc.script
        /\ devIdx = 1
        /\ devPattern = 0
        /\ pcBegin = "start"
        /\ op = NoOp
        /\ apc = "idle"
        /\ numberOfTimes = 0 /\ sum = 0 /\ i = 0 /\ result = Failed
        /\ rpc = "idle"
        /\ attemptsCounter = 0 /\ data_in = 0 /\ bit = 0
        /\ gpc = "idle"
        /\ timesToPulse = 0 /\ timesPulsed = 0 /\ isInit = FALSE
        /\ calls = 0 /\ ret = NoRet /\ prev = NoRet
        /\ samples = <<>> /\ failKind = "none" /\ violated = "none"
        /\ lastPulse = "none"
        /\ offsetAtCall = FromInt(0) /\ scaleAtCall = FromInt(0)

\* ------------------------------------------------------- __setChannelGain
\* timesToPulse before the isInit extra.
PulsesFor(cg) ==
    IF cg = CHANNEL_A_GAIN_64 THEN 3
    ELSE IF cg = CHANNEL_B_GAIN_32 THEN 2
    ELSE 1

\* Entry of __setChannelGain(cg, init): the pulse count, then the wait loop if isInit.
CallSetChannelGain(cg, init) ==
    /\ timesToPulse' = PulsesFor(cg) + (IF init THEN DataBits ELSE 0)
    /\ timesPulsed' = 0
    /\ isInit' = init
    /\ gpc' = IF init THEN "wait" ELSE "pulse"

\* if (timeElapsed >= 60) in the configuration-pulse loop.
GainPulseTooLong(timeElapsed) == timeElapsed >= PulseBudget

\* while (isInit && !this.__isReady()) sleep.msleep(1);
GainWait ==
    /\ gpc = "wait"
    /\ \E level \in {0, 1} :
          gpc' = IF level = 0 THEN "pulse" ELSE "wait"
    /\ UNCHANGED <<fields, clockPin, device, pcBegin, op, apc, avgLocals, rpc, rawLocals,
                   gainLocals, client, samples, failKind, violated, lastPulse, atCall>>

\* One iteration of the configuration-pulse loop: clock high, clock low, timing check.
\* A pulse that took too long restarts the whole procedure with isInit = true.
GainPulse ==
    /\ gpc = "pulse"
    /\ timesPulsed < timesToPulse
    /\ \E timeElapsed \in Elapsed :
          /\ violated' = (IF timeElapsed >= PulseBudget /\ violated = "none"
                          THEN "config" ELSE violated)
          /\ lastPulse' = (IF isInit THEN "resync" ELSE "config")
          /\ IF GainPulseTooLong(timeElapsed)
             THEN CallSetChannelGain(channelGain, TRUE)
             ELSE /\ timesPulsed' = timesPulsed + 1
                  /\ UNCHANGED <<timesToPulse, isInit, gpc>>
    /\ clockPin' = 0
    /\ UNCHANGED <<fields, device, pcBegin, op, apc, avgLocals, rpc, rawLocals,
                   client, samples, failKind, atCall>>

\* The loop is over: return true to __readRaw or to __begin.
GainReturn ==
    /\ gpc = "pulse"
    /\ timesPulsed >= timesToPulse
    /\ gpc' = "idle"
    /\ IF rpc = "gain"
       THEN rpc' = "check" /\ UNCHANGED pcBegin
       ELSE pcBegin' = "loop" /\ UNCHANGED rpc
    /\ UNCHANGED <<fields, clockPin, device, op, apc, avgLocals, rawLocals, gainLocals,
                   client, samples, failKind, violated, lastPulse, atCall>>

\* --------------------------------------------------------------- __readRaw
\* Variant: only the positive sentinel is rejected.
IsInvalid_OnlyMax(d) == d = 8388607

\* Variant: every pattern is rejected as a sentinel.
IsInvalid_EveryPattern(d) == TRUE

\* data_in === 0x7fffff || data_in === 0x800000
IsInvalid(d) == d = 8388607 \/ d = 8388608

\* Variant: the new bit enters at the high end.
ShiftIn_HighEnd(d, level) == (d \div 2) + level * 8388608

\* (data_in << 1) | level, for a data_in below 2^24.
ShiftIn(d, level) == 2 * d + level

\* Variant: one's complement, the + 1 is missing.
Decode_OnesComplement(d) ==
    IF BitAnd(d, 8388608, DataBits) # 0
    THEN -1 * Xor(d, 16777215, DataBits)
    ELSE d

\* The two's-complement conversion at the end of __readRaw.
Decode(d) ==
    IF BitAnd(d, 8388608, DataBits) # 0
    THEN -1 * (Xor(d, 16777215, DataBits) + 1)
    ELSE d

\* Variant: a pulse of exactly 60 microseconds is accepted.
DataPulseTooLong_OffByOne(timeElapsed) == timeElapsed > PulseBudget

\* if (timeElapsed >= 60) in the data-pulse loop.
DataPulseTooLong(timeElapsed) == timeElapsed >= PulseBudget

\* __readRaw returns r to the while loop of __readRawAverage; its frame is gone.
ReadRawReturn(r, kind) ==
    /\ result' = r
    /\ failKind' = kind
    /\ samples' = IF r.ok THEN Append(samples, r.val) ELSE samples
    /\ rpc' = "idle"
    /\ apc' = "while"
    /\ attemptsCounter' = 0 /\ data_in' = 0 /\ bit' = 0
    /\ timesToPulse' = 0 /\ timesPulsed' = 0 /\ isInit' = FALSE
    /\ UNCHANGED <<numberOfTimes, sum, i, gpc>>

\* One test of the readiness loop: ready (data line 0) starts the transfer, else
\* sleep and give up once attemptsCounter has reached maxAttempts. The loop's
\* counter is scoped to the loop; the outer attemptsCounter stays 0.
ReadPoll ==
    /\ rpc = "poll"
    /\ \E level \in {0, 1} :
          IF level = 0
          THEN /\ devPattern' = script[devIdx]
               /\ data_in' = 0 /\ bit' = 0
               /\ attemptsCounter' = 0
               /\ rpc' = "pulse"
               /\ UNCHANGED <<avgLocals, apc, gpc, gainLocals,
                              samples, failKind, script, devIdx>>
          ELSE IF attemptsCounter >= maxAttempts
               THEN ReadRawReturn(Failed, "NotReady") /\ UNCHANGED device
               ELSE /\ attemptsCounter' = attemptsCounter + 1
                    /\ UNCHANGED <<data_in, bit, rpc, avgLocals, apc, gpc, gainLocals,
                                   samples, failKind, device>>
    /\ UNCHANGED <<fields, clockPin, pcBegin, op, client, violated, lastPulse, atCall>>

\* A data pulse: clock high, clock low, then the timing check, which aborts the read.
DataPulse ==
    /\ rpc = "pulse"
    /\ bit < DataBits
    /\ clockPin' = 0
    /\ \E timeElapsed \in Elapsed :
          /\ violated' = (IF timeElapsed >= PulseBudget THEN "data" ELSE violated)
          /\ lastPulse' = (IF timeElapsed >= PulseBudget THEN "dataSlow" ELSE "data")
          /\ IF DataPulseTooLong(timeElapsed)
             THEN ReadRawReturn(Failed, "TimingViolation")
             ELSE /\ rpc' = "sample"
                  /\ UNCHANGED <<avgLocals, apc, gpc, gainLocals, rawLocals,
                                 samples, failKind>>
    /\ UNCHANGED <<fields, device, pcBegin, op, client, atCall>>

\* The data line is read (after the clock went low again) and shifted in.
DataSample ==
    /\ rpc = "sample"
    /\ data_in' = ShiftIn(data_in, BitAt(devPattern, DataBits - 1 - bit))
    /\ bit' = bit + 1
    /\ rpc' = "pulse"
    /\ devIdx' = IF bit + 1 = DataBits THEN (devIdx % Len(script)) + 1 ELSE devIdx
    /\ UNCHANGED <<fields, clockPin, script, devPattern, pcBegin, op, apc, avgLocals,
                   attemptsCounter, gpc, gainLocals, client, samples, failKind,
                   violated, lastPulse, atCall>>

\* Variant: the appended configuration is requested with the resync flag.
ReadConfigure_Resync ==
    /\ rpc = "pulse"
    /\ bit >= DataBits
    /\ rpc' = "gain"
    /\ CallSetChannelGain(channelGain, TRUE)
    /\ UNCHANGED <<fields, clockPin, device, pcBegin, op, apc, avgLocals, rawLocals,
                   client, samples, failKind, violated, lastPulse, atCall>>

\* After the 24 bits: this.__setChannelGain(this.__channelGain, false).
ReadConfigure ==
    /\ rpc = "pulse"
    /\ bit >= DataBits
    /\ rpc' = "gain"
    /\ CallSetChannelGain(channelGain, FALSE)
    /\ UNCHANGED <<fields, clockPin, device, pcBegin, op, apc, avgLocals, rawLocals,
                   client, samples, failKind, violated, lastPulse, atCall>>

\* sleep, the sentinel check and the conversion.
ReadCheck ==
    /\ rpc = "check"
    /\ IF IsInvalid(data_in)
       THEN ReadRawReturn(Failed, "InvalidData")
       ELSE ReadRawReturn(Sample(Decode(data_in)), "none")
    /\ UNCHANGED <<fields, clockPin, device, pcBegin, op, client, violated, lastPulse,
                   atCall>>

\* -------------------------------------------------------- __readRawAverage
\* numberOfTimes = numberOfTimes < 0 ? 1 : numberOfTimes
Clamp(n) == IF n < 0 THEN 1 ELSE n

\* Variant: the failure marker is not retried but added (false + sum is sum).
ShouldRetry_Never(r) == FALSE

\* Variant: a loose test (!result), which takes the sample 0 for the failure marker.
ShouldRetry_Falsy(r) == r = Failed \/ r.val = 0

\* while (result === false)
ShouldRetry(r) == r = Failed

\* Variant: integer division, the mean is truncated.
Mean_Truncated(s, n) == IF n = 0 THEN NaN ELSE FromInt(s \div n)

\* sum / numberOfTimes
Mean(s, n) == RDiv(FromInt(s), FromInt(n))

\* A public method starts and enters __readRawAverage(n).
Enter(name, arg, n) ==
    /\ op = NoOp
    /\ op' = [name |-> name, arg |-> arg]
    /\ numberOfTimes' = Clamp(n)
    /\ sum' = 0 /\ i' = 0 /\ result' = Failed
    /\ apc' = "for"
    /\ samples' = <<>> /\ failKind' = "none"
    /\ offsetAtCall' = offset /\ scaleAtCall' = scale
    /\ UNCHANGED <<fields, clockPin, device, rpc, rawLocals, gpc, gainLocals,
                   violated, lastPulse>>

\* for (let i = 0; i < numberOfTimes; i++) { let result = false; ...
AvgFor ==
    /\ apc = "for"
    /\ IF i < numberOfTimes
       THEN apc' = "while" /\ result' = Failed
       ELSE apc' = "ret" /\ UNCHANGED result
    /\ violated' = "none"
    /\ UNCHANGED <<fields, clockPin, device, pcBegin, op, numberOfTimes, sum, i, rpc,
                   rawLocals, gpc, gainLocals, client, samples, failKind,
                   lastPulse, atCall>>

\* Variant: __readRaw does not write 0 to the clock pin first.
AvgWhile_ClockUntouched ==
    /\ apc = "while"
    /\ failKind' = "none"
    /\ violated' = "none"
    /\ IF ShouldRetry(result)
       THEN /\ apc' = "reading"
            /\ rpc' = "poll"
            /\ attemptsCounter' = 0
            /\ UNCHANGED <<sum, i, data_in, bit, clockPin>>
       ELSE /\ sum' = sum + result.val
            /\ i' = i + 1
            /\ apc' = "for"
            /\ UNCHANGED <<rpc, clockPin, rawLocals>>
    /\ UNCHANGED <<fields, device, pcBegin, op, numberOfTimes, result, gpc, gainLocals,
                   client, samples, lastPulse, atCall>>

\* while (result === false) result = this.__readRaw();  then  sum += result.
\* __readRaw starts by writing 0 to the clock pin.
AvgWhile ==
    /\ apc = "while"
    /\ failKind' = "none"
    /\ violated' = "none"
    /\ IF ShouldRetry(result)
       THEN /\ apc' = "reading"
            /\ rpc' = "poll"
            /\ clockPin' = 0
            /\ attemptsCounter' = 0
            /\ UNCHANGED <<sum, i, data_in, bit>>
       ELSE /\ sum' = sum + result.val
            /\ i' = i + 1
            /\ apc' = "for"
            /\ UNCHANGED <<rpc, clockPin, rawLocals>>
    /\ UNCHANGED <<fields, device, pcBegin, op, numberOfTimes, result, gpc, gainLocals,
                   client, samples, lastPulse, atCall>>

\* ---------------------------------------------------------- public methods
\* The method returns v to __begin or to the client.
Leave(v) ==
    /\ apc = "ret"
    /\ ret' = [name |-> op.name, arg |-> op.arg, val |-> v, samples |-> samples]
    /\ prev' = ret
    /\ op' = NoOp
    /\ apc' = "idle"
    /\ numberOfTimes' = 0 /\ sum' = 0 /\ i' = 0 /\ result' = Failed
    /\ samples' = <<>>
    /\ pcBegin' = CASE pcBegin = "read" -> "test"
                    [] pcBegin = "tare" -> "loop"
                    [] OTHER -> pcBegin
    /\ UNCHANGED <<clockPin, device, rpc, rawLocals, gpc, gainLocals, calls, failKind,
                   violated, lastPulse, atCall>>

\* __applyNormalisation(rawValue)
applyNormalisation(rawValue) == RDiv(RAdd(rawValue, offset), scale)

\* read() { return this.readAverage(1); }
read ==
    /\ pcBegin = "ready" /\ calls < MaxCalls
    /\ Enter("read", 1, 1)
    /\ calls' = calls + 1
    /\ UNCHANGED <<pcBegin, ret, prev>>

readAverage ==
    /\ pcBegin = "ready" /\ calls < MaxCalls
    /\ \E n \in Counts : Enter("readAverage", n, n)
    /\ calls' = calls + 1
    /\ UNCHANGED <<pcBegin, ret, prev>>

\* Variant: the reading is also stored as the new offset.
readAverageReturn_ClobbersOffset ==
    /\ op.name \in {"read", "readAverage"}
    /\ latestReading' = applyNormalisation(Mean(sum, numberOfTimes))
    /\ offset' = latestReading'
    /\ Leave(latestReading')
    /\ UNCHANGED <<scale, channelGain>>

\* this.latestReading = this.__applyNormalisation(...); return this.latestReading;
readAverageReturn ==
    /\ op.name \in {"read", "readAverage"}
    /\ latestReading' = applyNormalisation(Mean(sum, numberOfTimes))
    /\ Leave(latestReading')
    /\ UNCHANGED <<offset, scale, channelGain>>

tare ==
    /\ pcBegin = "ready" /\ calls < MaxCalls
    /\ Enter("tare", 0, TareSamples)
    /\ calls' = calls + 1
    /\ UNCHANGED <<pcBegin, ret, prev>>

\* Variant: taring also resets the cached reading.
tareReturn_ResetsReading ==
    /\ op.name = "tare"
    /\ offset' = RNeg(Mean(sum, numberOfTimes))
    /\ latestReading' = FromInt(NeverRead)
    /\ Leave(TRUE)
    /\ UNCHANGED <<scale, channelGain>>

\* this.__offset = -1 * this.__readRawAverage(10); return true;
tareReturn ==
    /\ op.name = "tare"
    /\ offset' = RNeg(Mean(sum, numberOfTimes))
    /\ Leave(TRUE)
    /\ UNCHANGED <<scale, latestReading, channelGain>>

calibrateScale ==
    /\ pcBegin = "ready" /\ calls < MaxCalls
    /\ \E knownWeight \in KnownWeights :
          Enter("calibrateScale", knownWeight, CalibrateSamples)
    /\ calls' = calls + 1
    /\ UNCHANGED <<pcBegin, ret, prev>>

\* Variant: the offset is left out of the scale.
calibrateScaleReturn_NoOffset ==
    /\ op.name = "calibrateScale"
    /\ scale' = RDiv(Mean(sum, numberOfTimes), FromInt(op.arg))
    /\ Leave(scale')
    /\ UNCHANGED <<offset, latestReading, channelGain>>

\* this.__scale = (this.__readRawAverage(5) + this.__offset) / knownWeight;
calibrateScaleReturn ==
    /\ op.name = "calibrateScale"
    /\ scale' = RDiv(RAdd(Mean(sum, numberOfTimes), offset), FromInt(op.arg))
    /\ Leave(scale')
    /\ UNCHANGED <<offset, latestReading, channelGain>>

\* ----------------------------------------------------------------- __begin
\* if (this.__channelGain !== CHANNEL_A_GAIN_128) this.__setChannelGain(this.__channelGain);
\* The isInit argument is not passed, so it is falsy.
BeginGain ==
    /\ pcBegin = "start"
    /\ IF channelGain # CHANNEL_A_GAIN_128
       THEN pcBegin' = "gain" /\ CallSetChannelGain(channelGain, FALSE)
       ELSE pcBegin' = "loop" /\ UNCHANGED <<gpc, gainLocals>>
    /\ UNCHANGED <<fields, clockPin, device, op, apc, avgLocals, rpc, rawLocals,
                   client, samples, failKind, violated, lastPulse, atCall>>

\* Variant: the loop tares before its first read.
BeginRead_TareFirst ==
    /\ pcBegin = "loop"
    /\ IF ret = NoRet
       THEN pcBegin' = "tare" /\ Enter("tare", 0, TareSamples)
       ELSE pcBegin' = "read" /\ Enter("read", 1, 1)
    /\ UNCHANGED client

\* The loop condition calls this.read().
BeginRead ==
    /\ pcBegin = "loop"
    /\ pcBegin' = "read"
    /\ Enter("read", 1, 1)
    /\ UNCHANGED client

\* while (Math.abs(this.read()) >= 0.5) this.tare();  else return true.
BeginTest ==
    /\ pcBegin = "test"
    /\ IF AbsAtLeastHalf(ret.val)
       THEN pcBegin' = "tare" /\ Enter("tare", 0, TareSamples)
       ELSE /\ pcBegin' = "ready"
            /\ UNCHANGED <<fields, clockPin, device, op, apc, avgLocals, rpc, rawLocals,
                           gpc, gainLocals, samples, failKind, violated, lastPulse,
                           atCall>>
    /\ UNCHANGED client

Next ==
    \/ BeginGain \/ BeginRead \/ BeginTest
    \/ read \/ readAverage \/ tare \/ calibrateScale
    \/ readAverageReturn \/ tareReturn \/ calibrateScaleReturn
    \/ AvgFor \/ AvgWhile
    \/ ReadPoll \/ DataPulse \/ DataSample \/ ReadConfigure \/ ReadCheck
    \/ GainWait \/ GainPulse \/ GainReturn

Spec == Init /\ [][Next]_vars

\* ---------------------------------------------------------------- fairness
\* A step in which the device answers: the data line is low when polled and every
\* measured pulse stays within the budget.
DeviceResponds ==
    /\ rpc = "poll" => rpc' = "pulse"
    /\ gpc = "wait" => gpc' = "pulse"
    /\ (rpc = "pulse" /\ bit < DataBits) => rpc' = "sample"
    /\ (gpc = "pulse" /\ timesPulsed < timesToPulse) => timesPulsed' = timesPulsed + 1

\* Every step but the return statement of a public method.
Running ==
    \/ BeginGain \/ BeginRead \/ BeginTest
    \/ read \/ readAverage \/ tare \/ calibrateScale
    \/ AvgFor \/ AvgWhile
    \/ ReadPoll \/ DataPulse \/ DataSample \/ ReadConfigure \/ ReadCheck
    \/ GainWait \/ GainPulse \/ GainReturn

\* The driver is one synchronous thread that keeps executing: a step that can be taken
\* is taken, and a method standing at its return statement returns. The device
\* eventually keeps answering.
FairSpec ==
    /\ Init /\ [][Next]_vars
    /\ WF_vars(Running)
    /\ WF_apc(apc = "ret" /\ apc' = "idle")
    /\ <>[][DeviceResponds]_vars

\* ------------------------------------------------------------- properties
\* The public method that returned last, while no other is running.
Returned(names) == op = NoOp /\ ret.name \in names

ReadNames == {"read", "readAverage"}

\* The count a returned read asked for.
AskedCount(r) == IF r.name = "read" THEN 1 ELSE r.arg

Sentinels == {8388607, 8388608}

\* The signed value of a 24-bit pattern, by arithmetic.
Signed24(p) == IF p < 8388608 THEN p ELSE p - 16777216

\* C1: NotReady, TimingViolation and InvalidData are absorbed by the retry loop of
\* __readRawAverage: a failed attempt adds nothing to sum and is not counted, every
\* counted sample is a sample __readRaw returned, and when the loop is over the mean
\* handed to the public method is the mean of exactly those samples.
C1_FailuresAbsorbed ==
    /\ apc \in {"for", "reading", "ret"} =>
          sum = SeqSum(samples) /\ i = Len(samples)
    /\ (apc = "while" /\ result = Failed) =>
          sum = SeqSum(samples) /\ i = Len(samples)
    /\ (apc = "while" /\ result # Failed) =>
          sum + result.val = SeqSum(samples) /\ i + 1 = Len(samples)
    /\ apc = "ret" =>
          /\ i = numberOfTimes
          /\ Mean(sum, numberOfTimes) = RDiv(FromInt(SeqSum(samples)), FromInt(Len(samples)))

\* An attempt inside tare() failed with a timing violation after samples were taken.
C1_Witness ==
    /\ op.name = "tare" /\ apc = "while"
    /\ result = Failed /\ failKind = "TimingViolation"
    /\ i > 0

\* C2: a transfer that shifted in 0x7FFFFF or 0x800000 fails with InvalidData, and
\* no sample of any average is 2^23 - 1 or -2^23.
C2_SentinelsRejected ==
    /\ \A k \in 1..Len(samples) : samples[k] \notin {8388607, -8388608}
    /\ \A k \in 1..Len(ret.samples) : ret.samples[k] \notin {8388607, -8388608}
    /\ (apc = "while" /\ result.ok) => devPattern \notin Sentinels
    /\ (apc = "while" /\ failKind = "InvalidData") =>
          result = Failed /\ devPattern \in Sentinels

\* The device presented 0x800000 and the attempt failed with InvalidData.
C2_Witness ==
    /\ apc = "while" /\ failKind = "InvalidData"
    /\ devPattern = 8388608 /\ result = Failed

\* C3: a returned RawSample is the two's-complement value of the 24 bits the device
\* shifted out: P below 2^23, P - 2^24 from 2^23 on, always within [-2^23, 2^23 - 1].
C3_Decode ==
    (apc = "while" /\ result.ok) =>
        /\ result.val = Signed24(devPattern)
        /\ result.val >= -8388608 /\ result.val <= 8388607
        /\ devPattern = 0 => result.val = 0
        /\ devPattern = 1 => result.val = 1
        /\ devPattern = 16777214 => result.val = -2
        /\ devPattern = 8388609 => result.val = -8388607

\* The pattern 0x800001 was read and decoded.
C3_Witness ==
    /\ apc = "while" /\ result.ok
    /\ devPattern = 8388609 /\ result.val = -8388607

\* C4: readAverage(n), n >= 1, returns (M + Offset) / Scale for the untruncated mean M
\* of the n samples of the call and the Offset and Scale held when it was called.
C4_ReadAverage ==
    (Returned(ReadNames) /\ AskedCount(ret) >= 1) =>
        /\ Len(ret.samples) = AskedCount(ret)
        /\ ret.val = RDiv(RAdd(RDiv(FromInt(SeqSum(ret.samples)),
                                    FromInt(AskedCount(ret))),
                               offsetAtCall),
                          scaleAtCall)
        /\ (\A k \in 1..Len(ret.samples) : ret.samples[k] = ret.samples[1]) =>
              ret.val = RDiv(RAdd(FromInt(ret.samples[1]), offsetAtCall), scaleAtCall)
        /\ (/\ ret.samples = <<1000, 1002, 998, 1001, 999>>
            /\ offsetAtCall = FromInt(-950)
            /\ scaleAtCall = FromInt(10)) => ret.val = FromInt(5)

\* The end-to-end scenario: five samples around 1000, Offset -950, Scale 10.
C4_Witness ==
    /\ Returned({"readAverage"}) /\ ret.arg = 5
    /\ ret.samples = <<1000, 1002, 998, 1001, 999>>
    /\ offsetAtCall = FromInt(-950) /\ scaleAtCall = FromInt(10)
    /\ ret.val = FromInt(5)

\* The count the running public method passes to __readRawAverage.
Requested ==
    CASE op.name = "read" -> 1
      [] op.name = "readAverage" -> op.arg
      [] op.name = "tare" -> TareSamples
      [] OTHER -> CalibrateSamples

\* C5: __readRawAverage(count) obtains exactly count samples for count >= 1 and
\* exactly one sample, returned as the mean, for every count < 1 (0 included).
C5_Claim ==
    apc = "ret" =>
        /\ Len(samples) = (IF Requested < 1 THEN 1 ELSE Requested)
        /\ Requested < 1 => Mean(sum, numberOfTimes) = FromInt(samples[1])

\* C6: after a data pulse of 60 microseconds or more, the next clock pulse emitted
\* belongs to a resync configuration sequence, not to a data transfer.
C6_Claim ==
    [][(lastPulse = "dataSlow" /\ lastPulse' # "dataSlow") => lastPulse' = "resync"]_vars

C8_Frame ==
    [][/\ offset' # offset => (op.name = "tare" /\ apc = "ret" /\ scale' = scale)
       /\ scale' # scale => (op.name = "calibrateScale" /\ apc = "ret" /\ offset' = offset)
       /\ channelGain' = channelGain]_vars

\* A resync runs inside readAverage while Offset and Scale hold tared and
\* calibrated values.
C8_Witness ==
    /\ op.name = "readAverage" /\ isInit /\ gpc = "pulse" /\ i > 0
    /\ offset # FromInt(0) /\ scale # FromInt(DefaultScale)
    /\ offset = offsetAtCall /\ scale = scaleAtCall

\* Every sample of both calls is the same raw value.
SameLoad(a, b) ==
    /\ a # <<>> /\ b # <<>>
    /\ \A k \in 1..Len(a) : a[k] = a[1]
    /\ \A k \in 1..Len(b) : b[k] = a[1]

\* C9: tare() sets Offset to minus the mean of exactly 10 samples and returns true, and
\* under a constant load the readAverage(k), k >= 1, that follows it returns 0.
C9_Claim ==
    /\ Returned({"tare"}) =>
          /\ Len(ret.samples) = TareSamples
          /\ offset = RNeg(RDiv(FromInt(SeqSum(ret.samples)), FromInt(TareSamples)))
          /\ ret.val = TRUE
    /\ (/\ Returned(ReadNames) /\ AskedCount(ret) >= 1
        /\ prev.name = "tare"
        /\ SameLoad(prev.samples, ret.samples)) => ret.val = FromInt(0)

C11_Claim == IsFinite(scale) /\ scale[1] > 0

\* C12: latestReading is -1337 until the first read has returned; when read() or
\* readAverage(n) returns, latestReading is the value returned; no other step, of
\* tare(), calibrateScale() or a read still running, changes it, so it always is the
\* value the most recent completed read returned.
C12_LatestReading ==
    /\ [](/\ ret = NoRet => latestReading = FromInt(NeverRead)
          /\ ret.name \in ReadNames => latestReading = ret.val
          /\ (ret.name \notin ReadNames /\ prev.name \in ReadNames) =>
                latestReading = prev.val)
    /\ [][/\ latestReading' # latestReading =>
                (op.name \in ReadNames /\ apc = "ret" /\ ret' # ret)
          /\ (ret' # ret /\ ret'.name \in ReadNames) => latestReading' = ret'.val
          /\ (ret' # ret /\ ret'.name \notin ReadNames) =>
                latestReading' = latestReading]_vars

\* tare() returned to the client after a read that returned a reading other than the
\* sentinel and other than 0; the cache still holds that reading.
C12_Witness ==
    /\ Returned({"tare"}) /\ calls > 0
    /\ prev.name \in ReadNames
    /\ latestReading = prev.val
    /\ latestReading \notin {FromInt(NeverRead), FromInt(0)}

\* C13: when the device eventually keeps signalling ready and completing pulses within
\* the budget, every public call that has started (tare, read, readAverage,
\* calibrateScale, from the client or from __begin) eventually returns, whatever
\* NotReady, TimingViolation and InvalidData failures came first.
C13_Returns == (op # NoOp) ~> (op = NoOp)

\* tare() returned on a device whose conversions include both sentinels: InvalidData
\* failures fell before the first and between the later samples of the call.
C13_Witness ==
    /\ Returned({"tare"}) /\ script = EdgePatterns
    /\ Len(ret.samples) = TareSamples
    /\ ret.samples[1] = -2 /\ ret.samples[5] = -1 /\ ret.samples[6] = 1

\* C14: the constructor returns (__begin is over, no client call made yet) only with
\* a latestReading that is a finite number of absolute value below 0.5, the value of
\* the read() that ended the loop.
C14_ReadyWithinTolerance ==
    (pcBegin = "ready" /\ calls = 0) =>
        /\ IsFinite(latestReading)
        /\ 2 * Abs(latestReading[1]) < latestReading[2]
        /\ ret.name = "read" /\ latestReading = ret.val

\* Ready was reached after a first reading out of tolerance and a tare.
C14_Witness ==
    /\ pcBegin = "ready" /\ calls = 0
    /\ prev.name = "tare" /\ offset # FromInt(0)
    /\ latestReading = FromInt(0)

C16_Claim ==
    /\ pcBegin = "gain" => channelGain # CHANNEL_A_GAIN_128
    /\ (pcBegin = "loop" /\ ret = NoRet /\ channelGain # CHANNEL_A_GAIN_128) =>
          lastPulse # "none"
    /\ pcBegin = "gain" =>
          /\ isInit
          /\ timesToPulse = DataBits + (IF channelGain = CHANNEL_A_GAIN_64 THEN 3 ELSE 2)

\* Configuration pulses per gain/channel, as the claim tabulates them.
ConfigPulses ==
    CASE channelGain = CHANNEL_A_GAIN_128 -> 1
      [] channelGain = CHANNEL_A_GAIN_64 -> 3
      [] channelGain = CHANNEL_B_GAIN_32 -> 2

\* C17: in an attempt with no pulse of 60 microseconds or more, a raw read that found
\* the device ready emits exactly 24 data pulses and then exactly k configuration
\* pulses, k = 1, 3, 2 for A128, A64, B32, with no readiness wait and no extra 24
\* pulses; so also when the pattern then turns out to be a sentinel.
C17_PulseCounts ==
    /\ rpc \in {"pulse", "sample"} => (gpc = "idle" /\ bit <= DataBits)
    /\ (rpc = "gain" /\ violated = "none") =>
          /\ bit = DataBits
          /\ gpc = "pulse" /\ ~isInit
          /\ timesToPulse = ConfigPulses /\ timesPulsed <= ConfigPulses
          /\ timesPulsed > 0 => lastPulse = "config"
          /\ timesPulsed = 0 => lastPulse = "data"
    /\ (rpc = "check" /\ violated = "none") =>
          /\ bit = DataBits
          /\ ~isInit /\ timesPulsed = ConfigPulses
          /\ lastPulse = "config"

\* A transfer on ChannelB-Gain32 with no slow pulse shifted in 0x800000 and is about
\* to fail with InvalidData, after 24 data pulses and 2 configuration pulses.
C17_Witness ==
    /\ rpc = "check" /\ violated = "none"
    /\ channelGain = CHANNEL_B_GAIN_32 /\ data_in = 8388608
    /\ bit = DataBits /\ timesPulsed = 2

\* C18: a raw read starts by driving the clock low and emits no pulse while it polls
\* for readiness; the poll is bounded by maxAttempts sleeps, and an attempt that
\* fails with NotReady does so from the poll, at the bound, without a pulse emitted.
C18_PollBeforePulse ==
    /\ [](/\ rpc = "poll" =>
                /\ clockPin = 0 /\ gpc = "idle"
                /\ bit = 0 /\ data_in = 0
                /\ attemptsCounter \in 0..maxAttempts
          /\ (apc = "while" /\ failKind = "NotReady") => result = Failed)
    /\ [][/\ (rpc # "poll" /\ rpc' = "poll") =>
                (clockPin' = 0 /\ attemptsCounter' = 0 /\ lastPulse' = lastPulse)
          /\ rpc = "poll" =>
                /\ lastPulse' = lastPulse /\ clockPin' = clockPin
                /\ rpc' \in {"poll", "pulse", "idle"}
                /\ rpc' = "poll" => attemptsCounter' = attemptsCounter + 1
                /\ rpc' = "idle" =>
                      /\ attemptsCounter = maxAttempts
                      /\ failKind' = "NotReady" /\ result' = Failed
                      /\ samples' = samples
          /\ (failKind' = "NotReady" /\ failKind # "NotReady") => rpc = "poll"]_vars

\* The first attempt ever failed with NotReady: the clock is low although it may have
\* been high at construction, and no pulse has been emitted yet.
C18_Witness ==
    /\ apc = "while" /\ failKind = "NotReady" /\ result = Failed
    /\ lastPulse = "none" /\ clockPin = 0
    /\ pcBegin = "read" /\ ret = NoRet

\* C19, as claimed: in each of the 24 data iterations the data line is sampled while
\* the clock is high, and the bit is shifted into the low end of the accumulator, so
\* the first bit read ends up as bit 23.
C19_Claim ==
    /\ rpc = "sample" => clockPin = 1
    /\ rpc \in {"gain", "check"} => BitAt(data_in, 23) = BitAt(devPattern, 23)

\* C19, amended: in each of the 24 data iterations the data line is sampled after the
\* pulse's falling edge, with the clock low, once the pulse was measured within the
\* budget; the bit is shifted into the low end of the accumulator, which after b bits
\* holds the b highest bits of the pattern, so the first bit read ends up as bit 23.
C19_SampleAfterFall ==
    /\ rpc = "sample" => (clockPin = 0 /\ lastPulse = "data" /\ bit < DataBits)
    /\ rpc \in {"pulse", "sample"} => data_in = devPattern \div Pow2(DataBits - bit)
    /\ rpc \in {"gain", "check"} =>
          /\ data_in = devPattern
          /\ BitAt(data_in, 23) = BitAt(devPattern, 23)

\* The last bit of 0x800001 is about to be sampled with the clock low; the first bit
\* read, a 1, stands at bit 22 and moves to bit 23 with this shift.
C19_Witness ==
    /\ rpc = "sample" /\ clockPin = 0 /\ bit = 23
    /\ devPattern = 8388609 /\ data_in = 4194304

\* C20: a raw sample of value 0 is counted like any other and never retried as if it
\* were the failure marker: the step after __readRaw returned 0 adds it and advances
\* the loop, and on a device that always yields 0 readAverage(n), n >= 1, returns after
\* exactly n successful raw reads with (0 + Offset) / Scale.
C20_ZeroCounted ==
    /\ []((Returned(ReadNames) /\ AskedCount(ret) >= 1 /\ script = ZeroLoad) =>
             /\ Len(ret.samples) = AskedCount(ret)
             /\ \A k \in 1..Len(ret.samples) : ret.samples[k] = 0
             /\ ret.val = RDiv(RAdd(FromInt(0), offsetAtCall), scaleAtCall))
    /\ [][(apc = "while" /\ result.ok /\ result.val = 0) =>
             /\ apc' = "for" /\ rpc' = "idle"
             /\ i' = i + 1 /\ sum' = sum
             /\ samples' = samples]_vars

\* readAverage(5) returned 0 on the device that always yields 0, from five samples.
C20_Witness ==
    /\ Returned({"readAverage"}) /\ ret.arg = 5
    /\ script = ZeroLoad /\ ret.samples = <<0, 0, 0, 0, 0>>
    /\ scaleAtCall = FromInt(DefaultScale) /\ ret.val = FromInt(0)

====
